---- MODULE Spec2Model ----
(***************************************************************************)
(* Model of monkeys/search.py: the objective adapters, the requirement-    *)
(* satisfying tree builder, the tournament selector (a generator), the     *)
(* generation step and the optimize driver, as one sequential process.     *)
(*                                                                         *)
(* A tree is a record of the only things search.py observes of it:         *)
(*   size    get_tree_info(tree).num_nodes                                 *)
(*   val     what the innermost objective function returns for it          *)
(*   inputs  whether `req in tree` holds for every required input symbol   *)
(*   fault   "none", "eval" (tree.evaluate() raises) or "objective" (the   *)
(*           innermost objective function raises on it)                    *)
(* An entry of new_pop adds the object's provenance:                       *)
(*   from    index of the same object in the population the step was       *)
(*           given, 0 for an object created during this generation step    *)
(*   how     "fresh" (build_tree), "copy" (copy.deepcopy), "crossover",    *)
(*           "mutate" or "elite" (line 98)                                 *)
(* Percentages stand for the floats in [0, 1]: 80 is 0.80. The scores of   *)
(* a selection round are kept as integer numerators over one denominator.  *)
(***************************************************************************)
EXTENDS Integers, Sequences, FiniteSets, TLC

VARIABLES
    cfg,         \* the arguments of optimize / next_generation / tournament_select
    pc,          \* position of the process in search.py
    population,  \* optimize: population
    best_tree,   \* optimize: best_tree, the tracking list
    result,      \* optimize: the tree returned (line 207), <<>> before
    iteration,   \* optimize: number of generation steps completed
    new_pop,     \* next_generation: new_pop
    op,          \* next_generation: branch taken for the current slot
    tries,       \* next_generation: iterations of `for __ in xrange(99999)` used
    slots_done,  \* next_generation: iterations of `for __ in xrange(pop_size - 1)` done
    pulled,      \* next_generation: values already obtained from next(selector)
    selector,    \* the generator: "unstarted", "running" or "finished"
    scores,      \* tournament_select: scores (a dict: tree index -> score), as
                 \* numerators over unit
    unit,        \* tournament_select: common denominator of the scores (1 until
                 \* covariance parsimony divides; 0 when they are all nan)
    scored,      \* history: indices of the trees _scoring_fn was called on by
                 \* tournament_select
    adjusted,    \* history: scores as it stands on line 42, before the
                 \* pseudo-pareto step
    callbacks,   \* number of calls of score_callback in this generation step
    synth_for,   \* caller of the running build_tree_to_requirements
    attempt,     \* build_tree_to_requirements: iterations of xrange(9999) used
    limit,       \* sys.getrecursionlimit()
    saved,       \* orig_limit of the recursion_limit scopes that are open
    error,       \* the exception that ended the run, "none" while running
    seen_best,   \* history: highest raw score of any tree of any population
    built,       \* history: what the step just taken did, if it was one of
                 \* build_tree_to_requirements (NoBuild otherwise)
    won          \* history: index of the winner, if the step just taken was a
                 \* tournament (0 otherwise)

vars == <<cfg, pc, population, best_tree, result, iteration, new_pop, op,
          tries, slots_done, pulled, selector, scores, unit, scored, adjusted,
          callbacks, synth_for, attempt, limit, saved, error, seen_best, built,
          won>>

-----------------------------------------------------------------------------
(* Bounds of the model *)

\* largest population_size explored
MaxPop == 2
\* largest iterations explored
MaxIterations == 2
\* stands for the 9999 of `for __ in xrange(9999)` (line 147)
MaxBuildAttempts == 2
\* stands for the 99999 of `for __ in xrange(99999)` (line 101)
MaxCrossoverTries == 2

(* Program constants *)

\* sys.maxsize (scaled down to fit 32-bit integer arithmetic); -maxsize is the sentinel
maxsize == 1000000
\* selection_size=25 of the default select_fn (line 94)
DefaultSelectionSize == 25
\* recursion_limit(500) in build_tree_to_requirements (line 148)
BuildLimit == 500
\* recursion_limit(1500) around copy.deepcopy (line 66)
CopyLimit == 1500
\* recursion_limit(600) in optimize (line 201)
OptimizeLimit == 600
\* the interpreter's recursion limit when optimize is called
SysLimit == 1000

Sentinel == 0 - maxsize

-----------------------------------------------------------------------------
(* Trees and scoring functions *)

\* what build_tree, crossover and mutate can return
Grammar ==
    { [size |-> 1, val |-> 2, inputs |-> TRUE,  fault |-> "none"],
      [size |-> 3, val |-> 1, inputs |-> TRUE,  fault |-> "none"],
      [size |-> 3, val |-> 3, inputs |-> TRUE,  fault |-> "none"],
      [size |-> 1, val |-> 3, inputs |-> FALSE, fault |-> "none"],
      [size |-> 1, val |-> 3, inputs |-> TRUE,  fault |-> "eval"],
      [size |-> 1, val |-> 3, inputs |-> TRUE,  fault |-> "objective"] }

\* values of random.random(), in percent
RandomDraws == {0, 50, 99}

\* placeholders with the shape of a tree: no tree at all, and a tree passed
\* to crossover or mutate, of which nothing is looked at again
NoTree == [size |-> 0, val |-> 0, inputs |-> FALSE, fault |-> "no tree"]
Argument == [size |-> 0, val |-> 0, inputs |-> FALSE, fault |-> "argument"]

Returned(v) == [raised |-> FALSE, value |-> v]
Raised == [raised |-> TRUE, value |-> 0]

\* the undecorated objective function given by the caller
objective(x) == IF x.fault = "objective" THEN Raised ELSE Returned(x.val)

RECURSIVE scoring(_, _)

\* pre_evaluate(scoring_fn).wrapper
pre_evaluate(scoring_fn, tree) ==
    IF tree.fault = "eval" THEN Returned(Sentinel) ELSE scoring(scoring_fn, tree)

\* minimize(scoring_fn).wrapper
minimize(scoring_fn, tree) ==
    LET r == scoring(scoring_fn, tree)
    IN  IF r.raised THEN r ELSE Returned(0 - r.value)

\* require(*inputs)(fn).wrapper
require(fn, tree) ==
    IF ~tree.inputs THEN Returned(Sentinel) ELSE scoring(fn, tree)

\* a scoring function is the sequence of its decorators, outermost first
scoring(fn, tree) ==
    IF fn = <<>> THEN objective(tree)
    ELSE CASE Head(fn) = "pre_evaluate" -> pre_evaluate(Tail(fn), tree)
           [] Head(fn) = "minimize"     -> minimize(Tail(fn), tree)
           [] Head(fn) = "require"      -> require(Tail(fn), tree)

\* line 151 with the test left out: any candidate is accepted
meets_anything(fn, tree) == TRUE

\* functools.wraps copies required_inputs to every wrapper outside require
required_inputs(fn) == \E k \in DOMAIN fn : fn[k] = "require"

\* line 151: all(req in tree for req in requirements)
meets_requirements(fn, tree) == required_inputs(fn) => tree.inputs

Entry(t, f, h) == [tree |-> t, from |-> f, how |-> h]

-----------------------------------------------------------------------------
(* Helpers *)

RECURSIVE SumOver(_, _)
SumOver(f, S) ==
    IF S = {} THEN 0
    ELSE LET x == CHOOSE y \in S : TRUE IN f[x] + SumOver(f, S \ {x})

\* max(seq, key=...) returns the first of the greatest elements
FirstMax(key, n) ==
    CHOOSE i \in 1..n : /\ \A j \in 1..n : key[j] <= key[i]
                        /\ \A j \in 1..(i - 1) : key[j] < key[i]

-----------------------------------------------------------------------------
(* tournament_select: the score mapping (lines 16-55) *)

Size(trees) == [i \in DOMAIN trees |-> trees[i].size]

\* lines 21-23: sizes is filled only when a parsimony technique is active;
\* avg_size is compared as size * len(sizes) against sum(sizes)
SizesOf(trees, cov_parsimony, random_parsimony) ==
    IF cov_parsimony \/ random_parsimony THEN DOMAIN trees ELSE {}

\* sizes[tree] <= avg_size (line 31)
AtMostAvgSize(trees, i) ==
    Size(trees)[i] * Len(trees) <= SumOver(Size(trees), DOMAIN trees)

\* sizes.get(tree, 0) > avg_size (line 50); avg_size is 0 while sizes is empty
AboveAvgSize(trees, sized, i) ==
    IF sized = {} THEN FALSE
    ELSE Size(trees)[i] * Len(trees) > SumOver(Size(trees), DOMAIN trees)

\* lines 25-34: the trees that get scored; draw[i] is the value of
\* random.random() for tree i
ScoredTrees(trees, random_parsimony, random_parsimony_prob, draw) ==
    IF random_parsimony
    THEN {i \in DOMAIN trees :
            AtMostAvgSize(trees, i) \/ random_parsimony_prob < draw[i]}
    ELSE DOMAIN trees

\* int -> float: 2^63 - 1 is no double, so on a build with 64-bit sys.maxsize
\* float(-sys.maxsize) is -2^63 (Sentinel - 1 here); a 32-bit sys.maxsize and
\* the small scores are kept exactly
Float(x, wide) == IF wide /\ x = Sentinel THEN Sentinel - 1 ELSE x

\* score == -sys.maxsize for a score of numerator s over denominator u;
\* nan (u = 0) equals nothing
IsSentinel(s, u) == u # 0 /\ s = Sentinel * u

\* lines 36-41, covariance parsimony. scores[tree] on line 38 makes the
\* defaultdict of line 27 insert the sentinel for every unscored tree. With
\* n trees, ds[i] = n*size[i] - sum(sizes) and dx[i] = n*x[i] - sum(x):
\*   numpy.cov(...)[0, 1] = A / (n^2 * (n - 1)),  numpy.var(sizes) = B / n^3
\*   c = -n*A / ((n - 1)*B),  score - c*size = (x*D + n*A*size) / D
\* where A = sum(ds*dx), B = sum(ds^2), D = (n - 1)*B. D = 0 (one tree, or
\* all sizes equal) makes c and every score nan.
CovParsimony(trees, sc, wide) ==
    LET n  == Len(trees)
        sz == Size(trees)
        x  == [i \in DOMAIN trees |->
                 Float(IF i \in DOMAIN sc THEN sc[i] ELSE Sentinel, wide)]
        ds == [i \in DOMAIN trees |-> n * sz[i] - SumOver(sz, DOMAIN trees)]
        dx == [i \in DOMAIN trees |-> n * x[i] - SumOver(x, DOMAIN trees)]
        A  == SumOver([i \in DOMAIN trees |-> ds[i] * dx[i]], DOMAIN trees)
        B  == SumOver([i \in DOMAIN trees |-> ds[i] * ds[i]], DOMAIN trees)
        D  == (n - 1) * B
    IN  IF D = 0
        THEN [unit |-> 0, scores |-> [i \in DOMAIN trees |-> 0]]
        ELSE [unit |-> D,
              scores |-> [i \in DOMAIN trees |-> x[i] * D + n * A * sz[i]]]

\* lines 49-52 keeping every score: nothing is demoted
KeepScores(trees, sized, sc, u) == sc

\* lines 44-52: the pseudo-pareto step on scores of denominator u; the
\* result is a plain dict over the keys that were present. Every comparison
\* with nan is false, so nan scores stay.
PseudoPareto(trees, sized, sc, u) ==
    LET non_neg_inf == {i \in DOMAIN sc : ~IsSentinel(sc[i], u)}
        total       == SumOver(sc, non_neg_inf)
        count       == Cardinality(non_neg_inf)
        BelowAvg(i) == IF u = 0 THEN FALSE
                       ELSE IF count = 0 THEN sc[i] < Sentinel * u
                       ELSE sc[i] * count < total
    IN  [i \in DOMAIN sc |->
            IF BelowAvg(i) /\ AboveAvgSize(trees, sized, i)
            THEN Sentinel * u ELSE sc[i]]

\* scores.get as a sort key under Python 2: None sorts below every number
\* (nan scores are all numerator 0: no key is greater than another)
KeyLE(sc, i, j) ==
    \/ i \notin DOMAIN sc
    \/ i \in DOMAIN sc /\ j \in DOMAIN sc /\ sc[i] <= sc[j]

\* line 58: max(random.sample(trees, selection_size), key=scores.get) can be
\* w: some sample of selection_size distinct trees holds w and nothing greater
\* (among equals the first in sample order wins, and the order is random)
CanWin(sc, n, selection_size, w) ==
    \E sample \in SUBSET (1..n) :
        /\ Cardinality(sample) = selection_size
        /\ w \in sample
        /\ \A j \in sample : KeyLE(sc, j, w)

-----------------------------------------------------------------------------
(* recursion_limit (lines 131-138) *)

\* recursion_limit without its try/finally: an exception skips the restore
recursion_limit_exit_unprotected(orig_limit, inside, raised) ==
    IF raised THEN inside ELSE orig_limit

\* the limit in force when a scope is left: orig_limit was read at entry, inside is
\* the limit set for the scope, raised tells whether the body raised
recursion_limit_exit(orig_limit, inside, raised) == orig_limit

\* the limit after `with recursion_limit(l): body` entered under limit cur
Scoped(cur, l, raised) == recursion_limit_exit(cur, l, raised)

\* the limit after an exception has left every open scope, innermost first
RECURSIVE Unwound(_, _)
Unwound(cur, open) ==
    IF open = <<>> THEN cur
    ELSE Unwound(recursion_limit_exit(open[Len(open)], cur, TRUE),
                 SubSeq(open, 1, Len(open) - 1))

-----------------------------------------------------------------------------
(* Initial state: optimize has been called *)

\* the decorated scoring functions explored (require is applied to trees, so
\* it is stacked outside pre_evaluate)
Stackings ==
    { <<>>,
      <<"pre_evaluate">>,
      <<"require", "pre_evaluate">>,
      <<"minimize", "require", "pre_evaluate">>,
      <<"require", "minimize", "pre_evaluate">>,
      <<"require", "pre_evaluate", "minimize">> }

\* the arguments explored: params is len(getattr(scoring_function, '__params',
\* ())); wide tells whether sys.maxsize is 2^63 - 1 (or 2^31 - 1);
\* selection_size, the parsimony settings and the rates reach
\* tournament_select and next_generation through optimize's next_generation
\* argument
Arguments ==
    [ fn : Stackings,
      params : {0, 1, 2},
      population_size : 1..MaxPop,
      iterations : 0..MaxIterations,
      selection_size : {1, 2, DefaultSelectionSize},
      show_scores : BOOLEAN,
      build_tree : {"monkeys.trees.build_tree", "override"},
      cov_parsimony : BOOLEAN,
      wide : BOOLEAN,
      random_parsimony : BOOLEAN,
      random_parsimony_prob : {33, 100},
      crossover_rate : {0, 80, 100},
      mutation_rate : {0, 1} ]

\* the defaults of lines 15, 94 and 158, scaled to the bounds, with a
\* tournament that fits the population
Defaults ==
    [ fn |-> <<"require", "pre_evaluate">>,
      params |-> 1,
      population_size |-> MaxPop,
      iterations |-> MaxIterations,
      selection_size |-> 2,
      show_scores |-> TRUE,
      build_tree |-> "monkeys.trees.build_tree",
      cov_parsimony |-> FALSE,
      wide |-> TRUE,
      random_parsimony |-> TRUE,
      random_parsimony_prob |-> 33,
      crossover_rate |-> 80,
      mutation_rate |-> 1 ]

\* how many arguments may differ from their default in one run
MaxOverrides == 2

Configs ==
    {c \in Arguments :
        Cardinality({a \in DOMAIN Defaults : c[a] # Defaults[a]}) <= MaxOverrides}

NoScores == [i \in {} |-> 0]

\* no step of build_tree_to_requirements has just been taken
NoBuild ==
    [outcome |-> "none", attempts |-> 0, tree |-> NoTree, by |-> "none",
     caller |-> "none"]

\* optimize has been called with arguments from configs
Called(configs) ==
    /\ cfg \in configs
    /\ pc = "build"
    /\ population = <<>>
    /\ best_tree = <<>>
    /\ result = <<>>
    /\ iteration = 0
    /\ new_pop = <<>>
    /\ op = "none"
    /\ tries = 0
    /\ slots_done = 0
    /\ pulled = <<>>
    /\ selector = "unstarted"
    /\ scores = NoScores
    /\ unit = 1
    /\ scored = {}
    /\ adjusted = NoScores
    /\ callbacks = 0
    /\ synth_for = "none"
    /\ attempt = 0
    /\ limit = SysLimit
    /\ saved = <<>>
    /\ error = "none"
    /\ seen_best = Sentinel - 1
    /\ built = NoBuild
    /\ won = 0

Init == Called(Configs)

driver == <<cfg, population, best_tree, result, iteration, seen_best>>
step   == <<new_pop, op, tries, slots_done, pulled>>
gen    == <<selector, scores, unit, scored, adjusted, callbacks>>
synth  == <<synth_for, attempt>>

\* raw score of a tree: the scoring function applied directly
Raw(t) == scoring(cfg.fn, t)

\* highest raw score among the trees of pop and best
BestOf(pop, best) ==
    LET ok == {i \in DOMAIN pop : ~Raw(pop[i]).raised}
    IN  IF \E i \in ok : Raw(pop[i]).value > best
        THEN Raw(pop[CHOOSE i \in ok :
                       \A j \in ok : Raw(pop[j]).value <= Raw(pop[i]).value]).value
        ELSE best

-----------------------------------------------------------------------------
(* Exceptions *)

\* an exception leaves optimize: every open recursion_limit scope is left on
\* the way (cur is the limit in force where the exception starts)
Fail(exc, cur) ==
    /\ pc' = "failed"
    /\ error' = exc
    /\ limit' = Unwound(cur, saved)
    /\ saved' = <<>>
    /\ UNCHANGED <<driver, step, synth>>

\* build_tree_to_requirements is entered (lines 142-146), cur being the limit
EnterBuild(caller, cur) ==
    /\ pc' = "synth"
    /\ synth_for' = caller
    /\ attempt' = 0
    /\ limit' = cur
    /\ UNCHANGED <<saved, error>>

\* lines 101-108: an iteration of the retry loop ended in `continue`; when the
\* loop is exhausted its else clause calls build_tree_to_requirements
CrossoverRetry(cur) ==
    IF tries + 1 < MaxCrossoverTries
    THEN /\ tries' = tries + 1
         /\ pulled' = <<>>
         /\ pc' = "pull"
         /\ limit' = cur
         /\ UNCHANGED <<new_pop, op, slots_done, driver, scores, unit, scored,
                        adjusted, callbacks, synth, saved, error>>
    ELSE IF cfg.params # 1
    THEN /\ Fail("ValueError", cur)
         /\ UNCHANGED <<scores, unit, scored, adjusted, callbacks>>
    ELSE /\ tries' = tries + 1
         /\ pulled' = <<>>
         /\ EnterBuild("next_generation", cur)
         /\ UNCHANGED <<new_pop, op, slots_done, driver, scores, unit, scored,
                        adjusted, callbacks>>

\* next(selector) raised exc inside next_generation; the generator is finished
ThrowIntoStep(exc, cur) ==
    IF op = "crossover" /\ exc \in {"UnsatisfiableType", "RuntimeError"}
    THEN /\ selector' = "finished"
         /\ CrossoverRetry(cur)
    ELSE /\ Fail(exc, cur)
         /\ selector' = "finished"
         /\ UNCHANGED <<scores, unit, scored, adjusted, callbacks>>

\* next(selector) returned a tree; crossover and mutate are opaque (their
\* result does not depend on what the model knows of their arguments), so of
\* their arguments only the provenance is kept
Yield(e, cur) ==
    /\ pulled' = Append(pulled, IF op = "reproduce" THEN e
                                ELSE [e EXCEPT !.tree = Argument])
    /\ pc' = IF Len(pulled) + 1 = (IF op = "crossover" THEN 2 ELSE 1)
             THEN "apply" ELSE "pull"
    /\ limit' = cur
    /\ synth_for' = "none"
    /\ attempt' = 0
    /\ UNCHANGED <<new_pop, op, tries, slots_done, driver, gen, saved, error>>

\* Filled, with line 108 computing the fallback tree and not appending it
FilledUnlessFallback(e, cur) ==
    /\ new_pop' = IF synth_for = "next_generation" THEN new_pop
                  ELSE Append(new_pop, e)
    /\ slots_done' = slots_done + 1
    /\ pc' = "slot"
    /\ op' = "none"
    /\ tries' = 0
    /\ pulled' = <<>>
    /\ limit' = cur
    /\ synth_for' = "none"
    /\ attempt' = 0
    /\ UNCHANGED <<driver, gen, saved, error>>

\* a slot of new_pop is filled: one iteration of line 99's loop is over
Filled(e, cur) ==
    /\ new_pop' = Append(new_pop, e)
    /\ slots_done' = slots_done + 1
    /\ pc' = "slot"
    /\ op' = "none"
    /\ tries' = 0
    /\ pulled' = <<>>
    /\ limit' = cur
    /\ synth_for' = "none"
    /\ attempt' = 0
    /\ UNCHANGED <<driver, gen, saved, error>>

-----------------------------------------------------------------------------
(* optimize (lines 158-207) *)

\* lines 163-165: the next tree of the initial population is asked for
OptimizeBuild ==
    /\ pc = "build"
    /\ built' = NoBuild
    /\ won' = 0
    /\ Len(population) < cfg.population_size
    /\ IF cfg.params # 1
       THEN Fail("ValueError", limit) /\ UNCHANGED gen
       ELSE EnterBuild("optimize", limit) /\ UNCHANGED <<driver, step, gen>>

\* lines 173 and 200-201: the seed of the tracking list is drawn and the
\* recursion_limit(600) scope is entered
OptimizeSeed ==
    /\ pc = "build"
    /\ built' = NoBuild
    /\ won' = 0
    /\ Len(population) = cfg.population_size
    /\ \E i \in DOMAIN population : best_tree' = <<population[i]>>
    /\ saved' = Append(saved, limit)
    /\ limit' = OptimizeLimit
    /\ seen_best' = BestOf(population, seen_best)
    /\ pc' = "generation"
    /\ UNCHANGED <<cfg, population, result, iteration, step, gen, synth, error>>

\* line 98 with min for max
Worst(trees) ==
    CHOOSE i \in DOMAIN trees :
        \A j \in DOMAIN trees : Raw(trees[i]).value <= Raw(trees[j]).value

\* line 98: max(trees, key=scoring_fn)
Elite(trees) ==
    FirstMax([i \in DOMAIN trees |-> Raw(trees[i]).value], Len(trees))

\* lines 202-204 and 95-98: a generation step starts; the selector is created
\* (its body does not run yet) and the elite is put at index 0
NextGeneration ==
    /\ pc = "generation"
    /\ built' = NoBuild
    /\ won' = 0
    /\ iteration < cfg.iterations
    /\ IF \E i \in DOMAIN population : Raw(population[i]).raised
       THEN Fail("ObjectiveError", limit) /\ UNCHANGED gen
       ELSE /\ selector' = "unstarted"
            /\ scores' = NoScores
            /\ unit' = 1
            /\ scored' = {}
            /\ adjusted' = NoScores
            /\ callbacks' = 0
            /\ new_pop' = <<Entry(population[Elite(population)],
                                  Elite(population), "elite")>>
            /\ slots_done' = 0
            /\ pc' = "slot"
            /\ UNCHANGED <<driver, op, tries, pulled, synth, limit, saved, error>>

\* line 116 and 204: the step returns new_pop, which becomes the population
NextGenerationReturn ==
    /\ pc = "slot"
    /\ built' = NoBuild
    /\ won' = 0
    /\ slots_done >= Len(population) - 1
    /\ population' = [i \in DOMAIN new_pop |-> new_pop[i].tree]
    /\ iteration' = iteration + 1
    /\ seen_best' = BestOf(population', seen_best)
    /\ pc' = "generation"
    /\ UNCHANGED <<cfg, best_tree, result, step, gen, synth, limit, saved, error>>

\* line 206 returning the entry tracked last
LastTracked(best) == Len(best)

\* line 206: max(best_tree, key=scoring_function)
BestTracked(best) ==
    FirstMax([k \in DOMAIN best |-> Raw(best[k]).value], Len(best))

\* lines 205-207: the recursion_limit(600) scope is left and the best tracked
\* tree is returned
OptimizeReturn ==
    /\ pc = "generation"
    /\ built' = NoBuild
    /\ won' = 0
    /\ iteration = cfg.iterations
    /\ LET out == recursion_limit_exit(saved[Len(saved)], limit, FALSE)
           rest == SubSeq(saved, 1, Len(saved) - 1)
       IN  IF \E k \in DOMAIN best_tree : Raw(best_tree[k]).raised
           THEN /\ pc' = "failed"
                /\ error' = "ObjectiveError"
                /\ limit' = Unwound(out, rest)
                /\ saved' = <<>>
                /\ UNCHANGED <<driver, step, gen, synth>>
           ELSE /\ result' = <<best_tree[BestTracked(best_tree)]>>
                /\ pc' = "done"
                /\ limit' = out
                /\ saved' = rest
                /\ UNCHANGED <<cfg, population, best_tree, iteration, seen_best,
                               step, gen, synth, error>>

-----------------------------------------------------------------------------
(* build_tree_to_requirements (lines 141-155) *)

\* build_tree_to_requirements returns tree to its caller
BuildReturns(tree, cur) ==
    CASE synth_for = "optimize" ->
            /\ population' = Append(population, tree)
            /\ pc' = "build"
            /\ limit' = cur
            /\ synth_for' = "none"
            /\ attempt' = 0
            /\ UNCHANGED <<cfg, best_tree, result, iteration, seen_best, step,
                           gen, saved, error>>
      [] synth_for = "selector" -> Yield(Entry(tree, 0, "fresh"), cur)
      [] synth_for = "next_generation" ->
            Filled(Entry(tree, 0, "fresh"), cur)

\* build_tree_to_requirements raises exc to its caller: optimize re-raises
\* (lines 167-172), the selector catches UnsatisfiableType and starts another
\* tournament (lines 62-63), line 108 of next_generation lets it through
BuildRaises(exc, cur) ==
    CASE synth_for = "optimize" -> Fail(exc, cur) /\ UNCHANGED gen
      [] synth_for = "selector" ->
            IF exc = "UnsatisfiableType"
            THEN /\ pc' = "pull"
                 /\ limit' = cur
                 /\ synth_for' = "none"
                 /\ attempt' = 0
                 /\ UNCHANGED <<driver, step, gen, saved, error>>
            ELSE ThrowIntoStep(exc, cur)
      [] synth_for = "next_generation" -> Fail(exc, cur) /\ UNCHANGED gen

\* line 149: the constructor called is the one the module-level name
\* build_tree is bound to (line 12); optimize's build_tree argument (line
\* 158) is passed to nobody
BuildTreeCalled(argument) == "monkeys.trees.build_tree"

\* lines 147-155: one iteration of the attempt loop, and the raise that
\* follows the last one
BuildTreeAttempt ==
    /\ pc = "synth"
    /\ won' = 0
    /\ \/ \E tree \in Grammar :
            LET cur == Scoped(limit, BuildLimit, FALSE)
            IN  IF meets_requirements(cfg.fn, tree)
                THEN /\ BuildReturns(tree, cur)
                     /\ built' = [outcome |-> "returned",
                                  attempts |-> attempt + 1, tree |-> tree,
                                  by |-> BuildTreeCalled(cfg.build_tree),
                                  caller |-> synth_for]
                ELSE IF attempt + 1 < MaxBuildAttempts
                THEN /\ attempt' = attempt + 1
                     /\ limit' = cur
                     /\ built' = [outcome |-> "continue",
                                  attempts |-> attempt + 1, tree |-> tree,
                                  by |-> BuildTreeCalled(cfg.build_tree),
                                  caller |-> synth_for]
                     /\ UNCHANGED <<pc, synth_for, driver, step, gen, saved, error>>
                ELSE /\ BuildRaises("UnsatisfiableType", cur)
                     /\ built' = [outcome |-> "UnsatisfiableType",
                                  attempts |-> attempt + 1, tree |-> tree,
                                  by |-> BuildTreeCalled(cfg.build_tree),
                                  caller |-> synth_for]
       \/ \* build_tree exhausts the stack under the lowered limit
          /\ BuildRaises("RuntimeError", Scoped(limit, BuildLimit, TRUE))
          /\ built' = [outcome |-> "RuntimeError",
                       attempts |-> attempt + 1, tree |-> NoTree,
                       by |-> BuildTreeCalled(cfg.build_tree),
                       caller |-> synth_for]

-----------------------------------------------------------------------------
(* tournament_select (lines 15-73), a generator *)

\* line 191: max(scores, key=scores.get), any of the greatest
Best(sc) == {b \in DOMAIN sc : \A j \in DOMAIN sc : sc[j] <= sc[b]}

\* lines 175-198 without the test of lines 176-177
score_callback_unguarded(show_scores, best, tree) == Append(best, tree)

\* lines 175-198: best_tree after score_callback, tree being
\* max(scores, key=scores.get); nothing is appended unless show_scores is set
score_callback(show_scores, best, tree) ==
    IF show_scores THEN Append(best, tree) ELSE best

\* the first next(selector): lines 16-55 run, score_callback included
SelectorStart ==
    /\ pc = "pull"
    /\ built' = NoBuild
    /\ won' = 0
    /\ selector = "unstarted"
    /\ \E draw \in [DOMAIN population -> RandomDraws] :
         LET sized  == SizesOf(population, cfg.cov_parsimony,
                               cfg.random_parsimony)
             called == ScoredTrees(population, cfg.random_parsimony,
                                   cfg.random_parsimony_prob, draw)
             first  == [i \in called |-> Raw(population[i]).value]
             cov    == IF cfg.cov_parsimony
                       THEN CovParsimony(population, first, cfg.wide)
                       ELSE [unit |-> 1, scores |-> first]
             final  == PseudoPareto(population, sized, cov.scores, cov.unit)
         IN  /\ scores' = final
             /\ unit' = cov.unit
             /\ scored' = called
             /\ adjusted' = cov.scores
             /\ callbacks' = callbacks + 1
             /\ \E b \in Best(final) :
                   best_tree' = score_callback(cfg.show_scores, best_tree,
                                               population[b])
    /\ selector' = "running"
    /\ UNCHANGED <<cfg, population, result, iteration, seen_best, pc, step,
                   synth, limit, saved, error>>

\* lines 57-73: one tournament
SelectorTournament ==
    /\ pc = "pull"
    /\ built' = NoBuild
    /\ selector = "running"
    /\ IF cfg.selection_size > Len(population)
       THEN \* random.sample: sample larger than population
            /\ ThrowIntoStep("ValueError", limit)
            /\ won' = 0
       ELSE \E w \in DOMAIN population :
            /\ CanWin(scores, Len(population), cfg.selection_size, w)
            /\ won' = w
            /\ IF w \notin DOMAIN scores
               THEN \* scores[tree] of a tree that was never scored
                    ThrowIntoStep("KeyError", limit)
               ELSE IF IsSentinel(scores[w], unit)
               THEN /\ EnterBuild("selector", limit)
                    /\ UNCHANGED <<driver, step, gen>>
               ELSE \/ Yield(Entry(population[w], 0, "copy"),
                             Scoped(limit, CopyLimit, FALSE))
                    \/ \* copy.deepcopy exhausts the stack; evaluating the
                       \* handler's `except RuntimeException` raises NameError
                       ThrowIntoStep("NameError", Scoped(limit, CopyLimit, TRUE))

\* next(selector) on a generator that an exception has left
SelectorFinished ==
    /\ pc = "pull"
    /\ built' = NoBuild
    /\ won' = 0
    /\ selector = "finished"
    /\ ThrowIntoStep("StopIteration", limit)

-----------------------------------------------------------------------------
(* next_generation (lines 94-116) *)

\* lines 99-114: the random draws choose how the next slot is filled
ChooseBranch(r1, r2) ==
    IF r1 <= cfg.crossover_rate THEN "crossover"
    ELSE IF r2 * (100 - cfg.crossover_rate) <= 100 * cfg.mutation_rate
    THEN "mutate"
    ELSE "reproduce"

SlotStart ==
    /\ pc = "slot"
    /\ built' = NoBuild
    /\ won' = 0
    /\ slots_done < Len(population) - 1
    /\ \E r1 \in RandomDraws, r2 \in RandomDraws : op' = ChooseBranch(r1, r2)
    /\ tries' = 0
    /\ pulled' = <<>>
    /\ pc' = "pull"
    /\ UNCHANGED <<new_pop, slots_done, driver, gen, synth, limit, saved, error>>

\* line 103: crossover of the two selected trees
Crossover ==
    /\ pc = "apply"
    /\ built' = NoBuild
    /\ won' = 0
    /\ op = "crossover"
    /\ \/ \E child \in Grammar :
            Filled(Entry(child, 0, "crossover"), limit)
       \/ \E exc \in {"UnsatisfiableType", "RuntimeError"} :
            CrossoverRetry(limit) /\ UNCHANGED selector

\* line 111: mutation of the selected tree
Mutate ==
    /\ pc = "apply"
    /\ built' = NoBuild
    /\ won' = 0
    /\ op = "mutate"
    /\ \/ \E mutant \in Grammar :
            Filled(Entry(mutant, 0, "mutate"), limit)
       \/ \E exc \in {"UnsatisfiableType", "RuntimeError"} :
            Fail(exc, limit) /\ UNCHANGED gen

\* line 114: the selected tree is used as it is
Reproduce ==
    /\ pc = "apply"
    /\ built' = NoBuild
    /\ won' = 0
    /\ op = "reproduce"
    /\ Filled(pulled[1], limit)

-----------------------------------------------------------------------------

Next ==
    \/ OptimizeBuild
    \/ OptimizeSeed
    \/ NextGeneration
    \/ NextGenerationReturn
    \/ OptimizeReturn
    \/ BuildTreeAttempt
    \/ SelectorStart
    \/ SelectorTournament
    \/ SelectorFinished
    \/ SlotStart
    \/ Crossover
    \/ Mutate
    \/ Reproduce

Spec == Init /\ [][Next]_vars

-----------------------------------------------------------------------------
(* Properties *)

\* next_generation is at its return statement (line 116): new_pop is the
\* population it returns, population the one it was given
Returning == pc = "slot" /\ slots_done >= Len(population) - 1

\* a generation step is running
InStep == pc \in {"slot", "pull", "apply"} \/ (pc = "synth" /\ synth_for # "optimize")

IsStacked(adapter) == \E k \in DOMAIN cfg.fn : cfg.fn[k] = adapter

\* the tree lacks a required input symbol
Lacks(t) == IsStacked("require") /\ ~t.inputs

\* an adapter disqualifies the tree
Disqualified(t) == Lacks(t) \/ (IsStacked("pre_evaluate") /\ t.fault = "eval")

\* C1: whenever next_generation returns, the population it returns holds as
\* many trees as the one it was given, so the population keeps the size
\* optimize built it with through every generation step.
C1_PopulationSizeKept ==
    /\ Returning => Len(new_pop) = Len(population)
    /\ best_tree # <<>> => Len(population) = cfg.population_size

\* two generation steps have returned, the last one with a crossover child
C1_Witness ==
    /\ pc = "generation"
    /\ iteration >= 2
    /\ Len(population) >= 2
    /\ new_pop[2].how = "crossover"

\* C2: the tree at index 0 of the population next_generation returns has a
\* raw score at least that of every tree of the population it was given.
C2_Elitism ==
    Returning =>
        \A i \in DOMAIN population :
            /\ ~Raw(new_pop[1].tree).raised
            /\ Raw(new_pop[1].tree).value >= Raw(population[i]).value

\* the step returns an elite that random parsimony kept out of the selector's
\* mapping and that is strictly better than another tree
C2_Witness ==
    /\ Returning
    /\ selector = "running"
    /\ new_pop[1].from \notin DOMAIN scores
    /\ \E i \in DOMAIN population :
          Raw(population[i]).value < Raw(new_pop[1].tree).value

\* C3: with the default tournament size, a scoring function that declares one
\* type and requires no input, and a population smaller than the tournament
\* (10 in the claim, MaxPop here), optimize never fails unless tree
\* construction or the objective function itself does.
C3_EndToEnd ==
    ( /\ cfg.selection_size = DefaultSelectionSize
      /\ cfg.population_size = MaxPop
      /\ cfg.params = 1
      /\ ~IsStacked("require") )
    => (pc = "failed" => error \in {"RuntimeError", "ObjectiveError"})

\* C4: a failure of crossover, of mutate or of the selector's deep copy never
\* ends the generation step.
C4_FaultsAbsorbed ==
    ~ ( /\ pc = "failed"
        /\ \/ error = "NameError"
           \/ /\ op = "mutate"
              /\ Len(pulled) = 1
              /\ built = NoBuild
              /\ error \in {"UnsatisfiableType", "RuntimeError"} )

\* C5 as claimed: the tree optimize returns has a raw score at least that of
\* every tree of every population of the run, the last one included.
C5_ReturnsBestFound ==
    pc = "done" => Raw(result[1]).value >= seen_best

\* C5 as amended: the tree optimize returns is an entry of the tracking list
\* (the seed and, when show_scores is set, one entry per generation step) and
\* its raw score is at least that of every tracked entry.
C5_ReturnsBestTracked ==
    pc = "done" =>
        /\ \E k \in DOMAIN best_tree : result[1] = best_tree[k]
        /\ \A k \in DOMAIN best_tree :
              Raw(result[1]).value >= Raw(best_tree[k]).value
        /\ Len(best_tree) <= 1 + cfg.iterations
        /\ ~cfg.show_scores => Len(best_tree) = 1

\* optimize returns a tracked tree that is strictly better than the one
\* tracked last
C5_Witness ==
    /\ pc = "done"
    /\ Len(best_tree) >= 2
    /\ Raw(result[1]).value > Raw(best_tree[Len(best_tree)]).value

\* C6: whatever the stacking of the adapters, a tree an adapter disqualifies
\* has the sentinel score in the selector's mapping.
C6_DisqualifiedLoses ==
    (InStep /\ selector = "running") =>
        \A i \in DOMAIN scores :
            Disqualified(population[i]) => IsSentinel(scores[i], unit)

\* C7: a scoring function wrapped with pre_evaluate never raises: it returns
\* the sentinel when the evaluation or the wrapped function raises, and the
\* wrapped function's result otherwise.
C7_FaultsAbsorbed ==
    (cfg.fn # <<>> /\ Head(cfg.fn) = "pre_evaluate") =>
        /\ error # "ObjectiveError"
        /\ \A i \in DOMAIN population :
              LET t == population[i]
                  r == pre_evaluate(Tail(cfg.fn), t)
              IN  /\ ~r.raised
                  /\ t.fault # "none" => r.value = Sentinel
                  /\ t.fault = "none" => r = scoring(Tail(cfg.fn), t)

\* C8: no tree object of the population next_generation returns is an object
\* of the population it was given.
C8_NoAliasing ==
    Returning => \A i \in DOMAIN new_pop : new_pop[i].from = 0

\* C9: leaving a recursion_limit scope, normally or by an exception, restores
\* the limit in force before the scope was entered: outside optimize's scope
\* the limit is the caller's, inside it (between the inner scopes of
\* build_tree_to_requirements and of the selector) it is 600, and no scope is
\* open once optimize has returned or failed.
C9_LimitRestored ==
    /\ saved = <<>> => limit = SysLimit
    /\ saved # <<>> => (saved = <<SysLimit>> /\ limit = OptimizeLimit)
    /\ pc \in {"done", "failed"} => saved = <<>>

\* the deep copy failed inside the selector's scope, nested in optimize's, and
\* the exception left both
C9_Witness ==
    /\ pc = "failed"
    /\ error = "NameError"
    /\ limit = SysLimit

\* C10: build_tree_to_requirements returns a candidate only if it has every
\* required input symbol, goes on to another attempt only after a candidate
\* that lacks one, and raises UnsatisfiableType exactly when the candidate of
\* its last attempt lacks one too.
C10_BuildToRequirements ==
    /\ built.outcome = "returned" =>
          (~Lacks(built.tree) /\ pc # "synth")
    /\ built.outcome = "continue" =>
          /\ Lacks(built.tree)
          /\ built.attempts < MaxBuildAttempts
          /\ pc = "synth"
          /\ attempt = built.attempts
    /\ built.outcome = "UnsatisfiableType" =>
          (Lacks(built.tree) /\ built.attempts = MaxBuildAttempts)
    /\ (built.outcome \in {"returned", "continue", "UnsatisfiableType"}
        /\ Lacks(built.tree) /\ built.attempts = MaxBuildAttempts)
          => built.outcome = "UnsatisfiableType"

\* a candidate was rejected and the next one returned
C10_Witness ==
    /\ built.outcome = "returned"
    /\ built.attempts = 2
    /\ IsStacked("require")

\* C11: with crossover_rate = 0 and mutation_rate = 0, every slot after the
\* elite of the population next_generation returns is a deep copy of a tree
\* of the population it was given: none comes from crossover, from mutate or
\* from build_tree_to_requirements.
C11_PlainCopies ==
    (Returning /\ cfg.crossover_rate = 0 /\ cfg.mutation_rate = 0) =>
        \A i \in 2..Len(new_pop) : new_pop[i].how = "copy"

\* C12: with random parsimony on and random_parsimony_prob = 1.0, the selector
\* never calls the scoring function on a tree larger than the average size,
\* that tree's entry in the final score mapping is the sentinel, and every
\* tree at or below the average size is scored.
C12_RandomParsimony ==
    ( /\ InStep
      /\ selector = "running"
      /\ cfg.random_parsimony
      /\ cfg.random_parsimony_prob = 100 )
    => \A i \in DOMAIN population :
          /\ ~AtMostAvgSize(population, i) =>
                /\ i \notin scored
                /\ i \in DOMAIN scores
                /\ IsSentinel(scores[i], unit)
          /\ AtMostAvgSize(population, i) => i \in scored

\* C13: when optimize is given a build_tree override, every tree that
\* build_tree_to_requirements returns, for the initial population or as a
\* fallback during the run, was constructed by the override.
C13_OverrideBuilds ==
    (cfg.build_tree = "override" /\ built.outcome = "returned") =>
        built.by = "override"

\* the winner of the tournament just run is disqualified: random parsimony
\* left it unscored, an adapter disqualifies it, or its entry in the final
\* mapping is the sentinel (an adapter's, or the pseudo-pareto step's)
DisqualifiedWinner ==
    /\ won # 0
    /\ \/ won \notin scored
       \/ Disqualified(population[won])
       \/ (won \in DOMAIN scores /\ IsSentinel(scores[won], unit))

\* C14: whenever the winner of a tournament is disqualified, the selector
\* goes on to build_tree_to_requirements for a fresh tree: the pull neither
\* fails nor yields a copy of the winner.
C14_DisqualifiedWinnerReplaced ==
    DisqualifiedWinner => (pc = "synth" /\ synth_for = "selector")

\* C15: when build_tree_to_requirements, called by the selector as its
\* fallback, raises UnsatisfiableType, the exception reaches the caller of
\* next(selector) and ends the generation step: the selector neither
\* swallows it nor runs another tournament.
C15_UnsatisfiablePropagates ==
    (built.outcome = "UnsatisfiableType" /\ built.caller = "selector") =>
        (pc = "failed" /\ error = "UnsatisfiableType")

\* optimize has been called with the default arguments and one generation
\* to run
OneGeneration == Called({[Defaults EXCEPT !.iterations = 1]})

\* the process is sequential and always takes its next step: a run stops only
\* where optimize has returned or failed
FairSpec == OneGeneration /\ [][Next]_vars /\ WF_vars(Next)

\* C16: every call of next_generation terminates, by returning or by
\* failing, whatever the trees and the tree operations do.
C16_StepTerminates == InStep ~> (pc \in {"generation", "failed"})

\* the score of tree i before the pseudo-pareto step is below the mean of the
\* non-sentinel scores of that moment (below the sentinel if there is none)
BelowMean(i) ==
    LET valid == {j \in DOMAIN adjusted : ~IsSentinel(adjusted[j], unit)}
    IN  /\ unit # 0
        /\ IF valid = {} THEN adjusted[i] < Sentinel * unit
           ELSE adjusted[i] * Cardinality(valid) < SumOver(adjusted, valid)

\* the node count of tree i exceeds the population's average node count
AboveAverageNodeCount(i) ==
    Size(population)[i] * Len(population)
        > SumOver(Size(population), DOMAIN population)

\* C17 as claimed: for every setting of the two parsimony flags, the final
\* score mapping holds the sentinel for every tree whose score was below the
\* mean of the non-sentinel scores and whose node count exceeds the
\* population's average, and the unchanged score for every other tree.
C17_PseudoPareto ==
    (InStep /\ selector = "running") =>
        /\ DOMAIN scores = DOMAIN adjusted
        /\ \A i \in DOMAIN adjusted :
              scores[i] = IF BelowMean(i) /\ AboveAverageNodeCount(i)
                          THEN Sentinel * unit ELSE adjusted[i]

\* C17 as amended: when at least one parsimony flag is set, the final score
\* mapping holds the sentinel for every tree of the mapping whose score before
\* the step was below the mean of the non-sentinel scores and whose node count
\* exceeds the population's average, and the unchanged score for every other
\* tree of the mapping; with both flags off no score is changed.
C17_PseudoParetoWhenSized ==
    (InStep /\ selector = "running") =>
        /\ DOMAIN scores = DOMAIN adjusted
        /\ \A i \in DOMAIN adjusted :
              scores[i] = IF /\ cfg.cov_parsimony \/ cfg.random_parsimony
                             /\ BelowMean(i)
                             /\ AboveAverageNodeCount(i)
                          THEN Sentinel * unit ELSE adjusted[i]

\* a round in which the step demoted one tree and kept the score of another
C17_Witness ==
    /\ InStep
    /\ selector = "running"
    /\ \E i, j \in DOMAIN scores :
          /\ ~IsSentinel(adjusted[i], unit)
          /\ IsSentinel(scores[i], unit)
          /\ ~IsSentinel(scores[j], unit)
          /\ scores[j] = adjusted[j]

\* tree i holds the sentinel before covariance parsimony: random parsimony
\* left it unscored, or the scoring function returned the sentinel for it
SentinelBeforeCov(i) ==
    i \notin scored \/ Raw(population[i]).value = Sentinel

\* C18: under covariance parsimony a tree that holds the sentinel score
\* before the penalty is subtracted still holds exactly the sentinel after it,
\* and in the final mapping.
C18_SentinelKept ==
    (InStep /\ selector = "running" /\ cfg.cov_parsimony) =>
        \A i \in DOMAIN population :
            SentinelBeforeCov(i) =>
                /\ i \in DOMAIN adjusted
                /\ IsSentinel(adjusted[i], unit)
                /\ IsSentinel(scores[i], unit)

\* C19: in each call of next_generation, for every population size, the score
\* mapping is computed and the callback invoked exactly once: never twice,
\* before any slot after the elite is filled, and by the time the step
\* returns.
C19_CallbackOnce ==
    /\ InStep => callbacks <= 1
    /\ (InStep /\ Len(new_pop) > 1) => callbacks = 1
    /\ Returning => callbacks = 1

\* C20: when show_scores is false the tracking list is never extended: it
\* holds the seed alone, a tree of the initial population, and the seed is
\* what optimize returns, whatever the number of generations.
C20_ReturnsSeed ==
    ~cfg.show_scores =>
        /\ Len(best_tree) <= 1
        /\ (pc = "generation" /\ iteration = 0) =>
              \E i \in DOMAIN population : best_tree = <<population[i]>>
        /\ pc = "done" => result = best_tree

\* optimize returns the seed after a generation step has invoked the
\* callback, and the last population holds a tree with a higher raw score
C20_Witness ==
    /\ ~cfg.show_scores
    /\ pc = "done"
    /\ iteration >= 1
    /\ callbacks = 1
    /\ \E i \in DOMAIN population :
          Raw(population[i]).value > Raw(result[1]).value

====
